---------------------------- MODULE Spec2Model ----------------------------
(***************************************************************************)
(* Model of the source_it module (src/src/source_it_module.rs): the        *)
(* extraction of an embedded, ordered collection of SourcedFile pairs into *)
(* a timestamped directory, the DefaultHasher checksum over the            *)
(* collection, the SOURCE_CHECKSUM.txt sidecar and the timestamp string.   *)
(***************************************************************************)
EXTENDS Integers, Sequences, FiniteSets, TLC

(***************************************************************************)
(* 64-bit words (u64).  TLC's integers are 32 bits wide, so a u64 is the   *)
(* tuple of its 8 bytes, least significant first.                          *)
(***************************************************************************)
\* ^ on 4-bit values, bit by bit.
NibbleXor ==
    [a \in 0..15 |-> [b \in 0..15 |->
        ((a + b) % 2)
        + 2 * (((a \div 2) + (b \div 2)) % 2)
        + 4 * (((a \div 4) + (b \div 4)) % 2)
        + 8 * (((a \div 8) + (b \div 8)) % 2)]]

\* ^ on u8
ByteXor(a, b) ==
    16 * NibbleXor[a \div 16][b \div 16] + NibbleXor[a % 16][b % 16]

\* The word written as 16 hexadecimal digits, most significant first.
FromHex(h) ==
    << 16 * h[15] + h[16], 16 * h[13] + h[14], 16 * h[11] + h[12],
       16 * h[9] + h[10],  16 * h[7] + h[8],   16 * h[5] + h[6],
       16 * h[3] + h[4],   16 * h[1] + h[2] >>

\* ^ on u64
Xor(a, b) ==
    << ByteXor(a[1], b[1]), ByteXor(a[2], b[2]), ByteXor(a[3], b[3]),
       ByteXor(a[4], b[4]), ByteXor(a[5], b[5]), ByteXor(a[6], b[6]),
       ByteXor(a[7], b[7]), ByteXor(a[8], b[8]) >>

\* u64::wrapping_add: byte-wise ripple carry, the carry out of byte 8 dropped.
WrappingAdd(a, b) ==
    LET carry[i \in 1..8] ==
            IF i = 1 THEN 0 ELSE (a[i - 1] + b[i - 1] + carry[i - 1]) \div 256
    IN  << (a[1] + b[1] + carry[1]) % 256, (a[2] + b[2] + carry[2]) % 256,
           (a[3] + b[3] + carry[3]) % 256, (a[4] + b[4] + carry[4]) % 256,
           (a[5] + b[5] + carry[5]) % 256, (a[6] + b[6] + carry[6]) % 256,
           (a[7] + b[7] + carry[7]) % 256, (a[8] + b[8] + carry[8]) % 256 >>

\* u64::rotate_left by 8 * q + r bits (0 <= r < 8): byte i of the result takes
\* the low bits of byte i - q and the high bits of byte i - q - 1.
RotByte(w, i, q, r) ==
    ((w[((i - 1 - q) % 8) + 1] * (2 ^ r)) % 256)
        + (w[((i - 2 - q) % 8) + 1] \div (2 ^ (8 - r)))

RotateLeft(w, n) ==
    << RotByte(w, 1, n \div 8, n % 8), RotByte(w, 2, n \div 8, n % 8),
       RotByte(w, 3, n \div 8, n % 8), RotByte(w, 4, n \div 8, n % 8),
       RotByte(w, 5, n \div 8, n % 8), RotByte(w, 6, n \div 8, n % 8),
       RotByte(w, 7, n \div 8, n % 8), RotByte(w, 8, n \div 8, n % 8) >>

\* The little-endian word of at most 8 bytes (u8to64_le).
WordOfBytes(bs) ==
    << IF Len(bs) >= 1 THEN bs[1] ELSE 0, IF Len(bs) >= 2 THEN bs[2] ELSE 0,
       IF Len(bs) >= 3 THEN bs[3] ELSE 0, IF Len(bs) >= 4 THEN bs[4] ELSE 0,
       IF Len(bs) >= 5 THEN bs[5] ELSE 0, IF Len(bs) >= 6 THEN bs[6] ELSE 0,
       IF Len(bs) >= 7 THEN bs[7] ELSE 0, IF Len(bs) >= 8 THEN bs[8] ELSE 0 >>

(***************************************************************************)
(* std::collections::hash_map::DefaultHasher: SipHash-1-3 with the keys    *)
(* (0, 0), as DefaultHasher::new() builds it.                              *)
(***************************************************************************)
SipInit ==
    [v0 |-> FromHex(<<7,3,6,15,6,13,6,5,7,0,7,3,6,5,7,5>>),
     v1 |-> FromHex(<<6,4,6,15,7,2,6,1,6,14,6,4,6,15,6,13>>),
     v2 |-> FromHex(<<6,12,7,9,6,7,6,5,6,14,6,5,7,2,6,1>>),
     v3 |-> FromHex(<<7,4,6,5,6,4,6,2,7,9,7,4,6,5,7,3>>)]

\* The first half of a SipHash round (the compress! macro of core::hash::sip).
SipHalfRound1(s) ==
    [v0 |-> WrappingAdd(s.v0, s.v1), v1 |-> RotateLeft(s.v1, 13),
     v2 |-> WrappingAdd(s.v2, s.v3), v3 |-> RotateLeft(s.v3, 16)]

SipHalfRound2(s) ==
    [v0 |-> RotateLeft(s.v0, 32), v1 |-> Xor(s.v1, s.v0),
     v2 |-> s.v2,                 v3 |-> Xor(s.v3, s.v2)]

\* The second half.
SipHalfRound3(s) ==
    [v0 |-> WrappingAdd(s.v0, s.v3), v1 |-> RotateLeft(s.v1, 17),
     v2 |-> WrappingAdd(s.v2, s.v1), v3 |-> RotateLeft(s.v3, 21)]

SipHalfRound4(s) ==
    [v0 |-> s.v0,                 v1 |-> Xor(s.v1, s.v2),
     v2 |-> RotateLeft(s.v2, 32), v3 |-> Xor(s.v3, s.v0)]

SipRound(s) ==
    SipHalfRound4(SipHalfRound3(SipHalfRound2(SipHalfRound1(s))))

RECURSIVE SipRounds(_, _)
SipRounds(s, n) == IF n = 0 THEN s ELSE SipRounds(SipRound(s), n - 1)

XorV0(s, m) == [s EXCEPT !.v0 = Xor(s.v0, m)]

XorV2(s, m) == [s EXCEPT !.v2 = Xor(s.v2, m)]

XorV3(s, m) == [s EXCEPT !.v3 = Xor(s.v3, m)]

\* One message word absorbed: v3 ^= m; one compression round; v0 ^= m.
SipAbsorb(s, m) == XorV0(SipRound(XorV3(s, m)), m)

\* Every whole 8-byte block of the bytes absorbed, and the bytes left over.
RECURSIVE SipBlocks(_)
SipBlocks(r) ==
    IF Len(r.tail) < 8 THEN r
    ELSE SipBlocks([state |-> SipAbsorb(r.state, WordOfBytes(SubSeq(r.tail, 1, 8))),
                    tail  |-> SubSeq(r.tail, 9, Len(r.tail))])

\* The last word: the bytes left over and, in its top byte, the length of
\* the whole input mod 256.
LastWord(tail, length) ==
    [WordOfBytes(tail) EXCEPT ![8] = length % 256]

\* v0 ^ v1 ^ v2 ^ v3
FoldState(s) == Xor(Xor(s.v0, s.v1), Xor(s.v2, s.v3))

\* Hasher::finish over every byte written so far: the last word absorbed,
\* v2 ^= 0xff, three finalisation rounds.
SipLast(r, length) ==
    FoldState(SipRounds(XorV2(SipAbsorb(r.state, LastWord(r.tail, length)),
                              <<255, 0, 0, 0, 0, 0, 0, 0>>), 3))

SipFinish(bs) == SipLast(SipBlocks([state |-> SipInit, tail |-> bs]), Len(bs))

(***************************************************************************)
(* calculate_checksum: every file's path, then its content, fed to one     *)
(* DefaultHasher in the collection's order.  <str as Hash>::hash writes    *)
(* the string's bytes and then the byte 0xff.                              *)
(***************************************************************************)
\* A SourcedFile path is kept as its sequence of components
\* (Path::components); the &str is the components joined by '/'.
Utf8(name) ==
    CASE name = "a" -> <<97>>
      [] name = "b" -> <<98>>
      [] name = ".." -> <<46, 46>>
      [] name = "SOURCE_CHECKSUM.txt" ->
            <<83, 79, 85, 82, 67, 69, 95, 67, 72, 69, 67, 75, 83, 85, 77,
              46, 116, 120, 116>>

RECURSIVE PathStr(_)
PathStr(path) ==
    IF path = <<>> THEN <<>>
    ELSE IF Len(path) = 1 THEN Utf8(path[1])
    ELSE Utf8(Head(path)) \o <<47>> \o PathStr(Tail(path))

\* str::hash: Hasher::write_str
HashStr(written, bytes) == written \o bytes \o <<255>>

RECURSIVE HashedBytes(_, _)
HashedBytes(written, source_files) ==
    IF source_files = <<>> THEN written
    ELSE LET file == Head(source_files)
         IN  HashedBytes(HashStr(HashStr(written, PathStr(file.path)), file.content),
                         Tail(source_files))

\* calculate_checksum with `file.path.hash(&mut hasher)` left out: only the
\* contents are fed to the hasher.
RECURSIVE ContentBytes(_, _)
ContentBytes(written, source_files) ==
    IF source_files = <<>> THEN written
    ELSE ContentBytes(HashStr(written, Head(source_files).content),
                      Tail(source_files))

calculate_checksum_content_only(source_files) ==
    SipFinish(ContentBytes(<<>>, source_files))

calculate_checksum(source_files) == SipFinish(HashedBytes(<<>>, source_files))

(***************************************************************************)
(* write_checksum_file: the text written to SOURCE_CHECKSUM.txt.           *)
(***************************************************************************)
\* The hexadecimal digits of a word, most significant first, without
\* leading zeros ("0" for zero).
RECURSIVE StripZeros(_)
StripZeros(ds) ==
    IF Len(ds) > 1 /\ Head(ds) = 0 THEN StripZeros(Tail(ds)) ELSE ds

HexDigits(w) ==
    StripZeros(<< w[8] \div 16, w[8] % 16, w[7] \div 16, w[7] % 16,
                  w[6] \div 16, w[6] % 16, w[5] \div 16, w[5] % 16,
                  w[4] \div 16, w[4] % 16, w[3] \div 16, w[3] % 16,
                  w[2] \div 16, w[2] % 16, w[1] \div 16, w[1] % 16 >>)

RECURSIVE Zeros(_)
Zeros(n) == IF n <= 0 THEN <<>> ELSE <<0>> \o Zeros(n - 1)

\* The sequence of f[d] for the digits d of ds.
RECURSIVE MapDigits(_, _)
MapDigits(f, ds) ==
    IF ds = <<>> THEN <<>> ELSE <<f[Head(ds)]>> \o MapDigits(f, Tail(ds))

\* The ASCII bytes of the lowercase hexadecimal digits.
HexBytes == [d \in 0..15 |-> IF d < 10 THEN 48 + d ELSE 87 + d]

\* {:#016x}: the prefix "0x", then the digits zero-padded so that the whole
\* field, prefix included, is at least 16 characters wide.
FormatAltHex016(w) ==
    LET ds     == HexDigits(w)
        pad    == IF 2 + Len(ds) < 16 THEN 16 - 2 - Len(ds) ELSE 0
    IN  <<48, 120>> \o MapDigits(HexBytes, Zeros(pad) \o ds)

\* "Source extraction checksum: "
ChecksumLinePrefix ==
    <<83, 111, 117, 114, 99, 101, 32, 101, 120, 116, 114, 97, 99, 116, 105,
       111, 110, 32, 99, 104, 101, 99, 107, 115, 117, 109, 58, 32 >>

\* "\nThis file verifies the integrity of extracted source files.\n
\*  Generated by source_it module." and writeln!'s final "\n"
ChecksumFileTrailer ==
    <<10, 84, 104, 105, 115, 32, 102, 105, 108, 101, 32, 118, 101, 114,
       105, 102, 105, 101, 115, 32, 116, 104, 101, 32, 105, 110, 116, 101,
       103, 114, 105, 116, 121, 32, 111, 102, 32, 101, 120, 116, 114, 97,
       99, 116, 101, 100, 32, 115, 111, 117, 114, 99, 101, 32, 102, 105,
       108, 101, 115, 46, 10, 71, 101, 110, 101, 114, 97, 116, 101, 100,
       32, 98, 121, 32, 115, 111, 117, 114, 99, 101, 95, 105, 116, 32, 109,
       111, 100, 117, 108, 101, 46, 10 >>

\* writeln! hands the text to the file in the pieces of the format string.
ChecksumFilePieces(checksum) ==
    << ChecksumLinePrefix, FormatAltHex016(checksum), ChecksumFileTrailer >>

RECURSIVE Concat(_)
Concat(pieces) ==
    IF pieces = <<>> THEN <<>> ELSE Head(pieces) \o Concat(Tail(pieces))

ChecksumFileText(checksum) == Concat(ChecksumFilePieces(checksum))

(***************************************************************************)
(* create_timestamp.  Duration::as_secs is a u64; it is kept here as five  *)
(* decimal limbs of four digits, most significant first, so that the       *)
(* divisions run over the whole u64 range.                                 *)
(***************************************************************************)
secs_per_day == 86400

\* n / d and n % d for a divisor small enough that rem * 10000 fits.
RECURSIVE DivFrom(_, _, _, _)
DivFrom(n, d, i, rem) ==
    IF i > Len(n) THEN [q |-> <<>>, r |-> rem]
    ELSE LET cur  == rem * 10000 + n[i]
             rest == DivFrom(n, d, i + 1, cur % d)
         IN  [q |-> <<cur \div d>> \o rest.q, r |-> rest.r]

DivMod(n, d) == DivFrom(n, d, 1, 0)

\* n + k for a small k.
RECURSIVE AddFromLimb(_, _, _)
AddFromLimb(n, i, carry) ==
    IF i = 0 THEN <<>>
    ELSE LET s == n[i] + carry
         IN  AddFromLimb(n, i - 1, s \div 10000) \o <<s % 10000>>

AddSmall(n, k) == AddFromLimb(n, Len(n), k)

\* The decimal digits of a limb number and of a small integer, without
\* leading zeros.
RECURSIVE LimbDigits(_)
LimbDigits(n) ==
    IF n = <<>> THEN <<>>
    ELSE << Head(n) \div 1000, (Head(n) \div 100) % 10, (Head(n) \div 10) % 10,
            Head(n) % 10 >> \o LimbDigits(Tail(n))

RECURSIVE NatDigits(_)
NatDigits(n) == IF n < 10 THEN <<n>> ELSE NatDigits(n \div 10) \o <<n % 10>>

DecChars ==
    [d \in 0..9 |-> <<"0", "1", "2", "3", "4", "5", "6", "7", "8", "9">>[d + 1]]

\* {:0w}: the digits zero-padded to at least w characters.
FormatPadded(ds, w) ==
    MapDigits(DecChars, IF Len(ds) < w THEN Zeros(w - Len(ds)) \o ds ELSE ds)

Min(a, b) == IF a < b THEN a ELSE b

\* A clock reading: SystemTime::now().duration_since(UNIX_EPOCH) is Ok with
\* a number of seconds, or Err (the clock is before the epoch).
ClockFailed == [ok |-> FALSE, secs |-> <<0, 0, 0, 0, 0>>]

create_timestamp(now) ==
    IF now.ok
    THEN LET total_secs       == now.secs
             days_since_epoch == DivMod(total_secs, secs_per_day).q
             years_since_1970 == DivMod(days_since_epoch, 365).q
             year             == AddSmall(years_since_1970, 1970)
             days_in_year     == DivMod(days_since_epoch, 365).r
             month            == (days_in_year \div 30) + 1
             day              == (days_in_year % 30) + 1
             secs_today       == DivMod(total_secs, secs_per_day).r
             hours            == secs_today \div 3600
             minutes          == (secs_today % 3600) \div 60
             seconds          == secs_today % 60
         IN  FormatPadded(StripZeros(LimbDigits(year)), 4)
                 \o FormatPadded(NatDigits(Min(month, 12)), 2)
                 \o FormatPadded(NatDigits(Min(day, 31)), 2)
                 \o <<"_">>
                 \o FormatPadded(NatDigits(hours), 2)
                 \o FormatPadded(NatDigits(minutes), 2)
                 \o FormatPadded(NatDigits(seconds), 2)
    ELSE << "0", "0", "0", "0", "0", "0", "0", "0", "_",
            "0", "0", "0", "0", "0", "0" >>

\* The String of a sequence of characters.
RECURSIVE StrFrom(_, _)
StrFrom(cs, i) == IF i > Len(cs) THEN "" ELSE cs[i] \o StrFrom(cs, i + 1)

(***************************************************************************)
(* The filesystem: disk.dirs is the set of directories and disk.files maps *)
(* every regular file to its bytes.  A location is the sequence of names   *)
(* from the root; there are no symbolic links.                             *)
(***************************************************************************)
\* Path::parent: the path without its last component.
Parent(p) == SubSeq(p, 1, Len(p) - 1)

\* The kernel's walk along the components of a path: every component
\* stepped through must be a directory, and ".." steps to the parent.
RECURSIVE Walk(_, _, _)
Walk(cur, rest, disk) ==
    IF rest = <<>> THEN [ok |-> TRUE, path |-> cur, err |-> ""]
    ELSE IF cur \in DOMAIN disk.files
         THEN [ok |-> FALSE, path |-> cur, err |-> "NotADirectory"]
    ELSE IF cur \notin disk.dirs
         THEN [ok |-> FALSE, path |-> cur, err |-> "NotFound"]
    ELSE Walk(IF Head(rest) = ".." THEN Parent(cur) ELSE Append(cur, Head(rest)),
              Tail(rest), disk)

Resolve(p, disk) == Walk(<<>>, p, disk)

\* Path::is_dir
IsDir(p, disk) == Resolve(p, disk).ok /\ Resolve(p, disk).path \in disk.dirs

\* Path::canonicalize: the location of an existing file or directory.
Canonicalize(p, disk) ==
    LET r == Resolve(p, disk)
    IN  IF ~r.ok THEN r
        ELSE IF r.path \in disk.dirs \/ r.path \in DOMAIN disk.files THEN r
        ELSE [ok |-> FALSE, path |-> r.path, err |-> "NotFound"]

\* The directory an entry of path p is made in, and the new entry's location.
Entry(p, disk) ==
    LET r == Resolve(Parent(p), disk)
    IN  IF ~r.ok THEN r
        ELSE IF r.path \in DOMAIN disk.files
             THEN [ok |-> FALSE, path |-> r.path, err |-> "NotADirectory"]
        ELSE IF r.path \notin disk.dirs
             THEN [ok |-> FALSE, path |-> r.path, err |-> "NotFound"]
        ELSE IF p = <<>> \/ p[Len(p)] = ".."
             THEN [ok |-> FALSE, path |-> r.path, err |-> "IsADirectory"]
        ELSE [ok |-> TRUE, path |-> Append(r.path, p[Len(p)]), err |-> ""]

\* mkdir(2)
Mkdir(p, disk) ==
    LET e == Entry(p, disk)
    IN  IF ~e.ok
        THEN [ok |-> FALSE, disk |-> disk,
              err |-> IF e.err = "IsADirectory" THEN "AlreadyExists" ELSE e.err]
        ELSE IF e.path \in disk.dirs \/ e.path \in DOMAIN disk.files
        THEN [ok |-> FALSE, disk |-> disk, err |-> "AlreadyExists"]
        ELSE [ok |-> TRUE, disk |-> [disk EXCEPT !.dirs = @ \cup {e.path}],
              err |-> ""]

\* fs::create_dir_all: mkdir; on NotFound the parent first and mkdir again;
\* any other error is a success when the path is a directory after all.
RECURSIVE CreateDirAll(_, _)
CreateDirAll(p, disk) ==
    IF p = <<>> THEN [ok |-> TRUE, disk |-> disk, err |-> ""]
    ELSE LET m == Mkdir(p, disk)
         IN  IF m.ok THEN m
             ELSE IF m.err = "NotFound"
             THEN LET up == CreateDirAll(Parent(p), disk)
                  IN  IF ~up.ok THEN up
                      ELSE LET again == Mkdir(p, up.disk)
                           IN  IF again.ok THEN again
                               ELSE IF IsDir(p, up.disk)
                               THEN [ok |-> TRUE, disk |-> up.disk, err |-> ""]
                               ELSE again
             ELSE IF IsDir(p, disk)
             THEN [ok |-> TRUE, disk |-> disk, err |-> ""]
             ELSE m

\* The files of a disk with the file at location t holding bytes.
WithFile(disk, t, bytes) ==
    [disk EXCEPT !.files = [q \in DOMAIN disk.files \cup {t} |->
                                IF q = t THEN bytes ELSE disk.files[q]]]

\* fs::File::create: the file is created, or truncated when it exists.
FileCreate(p, disk) ==
    LET e == Entry(p, disk)
    IN  IF ~e.ok THEN [ok |-> FALSE, disk |-> disk, err |-> e.err, at |-> <<>>]
        ELSE IF e.path \in disk.dirs
        THEN [ok |-> FALSE, disk |-> disk, err |-> "IsADirectory", at |-> <<>>]
        ELSE [ok |-> TRUE, disk |-> WithFile(disk, e.path, <<>>), err |-> "",
              at |-> e.path]

\* write(2) of bytes at offset 0 of the open file at location t.
WriteAt(t, bytes, disk) ==
    LET old == IF t \in DOMAIN disk.files THEN disk.files[t] ELSE <<>>
    IN  WithFile(disk, t, bytes \o SubSeq(old, Len(bytes) + 1, Len(old)))

(***************************************************************************)
(* The inputs of handle_sourceit_command and the environment.              *)
(***************************************************************************)
\* The longest SourcedFile collection.
MaxFiles == 2

PathChoices == { <<"a">>, <<"a", "b">>, <<"..", "a">>, <<"SOURCE_CHECKSUM.txt">> }

\* "x" and "y"
ContentChoices == { <<120>>, <<121>> }

SourcedFile == [path : PathChoices, content : ContentChoices]

CollectionsOf(filesChoices) ==
    UNION { [1..n -> filesChoices] : n \in 0..MaxFiles }

\* crate_name
CrateNames == { "", "c" }

\* output_path: None is <<>>, Some(path) is <<path>>.
OutputPaths == { <<>>, << <<"out">> >> }

\* The process's current working directory.
Cwd == << "work" >>

\* A clock that fails, and 1730000000 and 1730000001 seconds.
MainClock ==
    { ClockFailed, [ok |-> TRUE, secs |-> <<0, 0, 17, 3000, 0>>],
      [ok |-> TRUE, secs |-> <<0, 0, 17, 3000, 1>>] }

Invocations == {1, 2}

VARIABLES
    fs,            \* the filesystem
    crate_name,    \* the arguments of handle_sourceit_command
    output_path,
    source_files,
    call,          \* per invocation: its position, locals, result and history
    now,           \* create_timestamp alone: the clock reading
    stamp,         \*   and the string returned
    pair,          \* calculate_checksum alone: two collections
    sums           \*   and their checksums

vars == << fs, crate_name, output_path, source_files, call, now, stamp, pair, sums >>

args == << crate_name, output_path, source_files >>

alone == << now, stamp, pair, sums >>

NoResult == [status |-> "none", path |-> <<>>, error |-> "", file |-> <<>>, cause |-> ""]

Ok(path) == [status |-> "Ok", path |-> path, error |-> "", file |-> <<>>, cause |-> ""]

\* Err(SourceExtractionError { message }): the message's fixed text, the file
\* path it names and the I/O error it ends with.
Err(error, file, cause) ==
    [status |-> "Err", path |-> <<>>, error |-> error, file |-> file, cause |-> cause]

NewCall(pc) ==
    [pc |-> pc, base_path |-> <<>>, timestamp |-> "", extraction_path |-> <<>>,
     checksum |-> <<>>, idx |-> 0, open |-> <<>>, result |-> NoResult,
     trace |-> <<>>, written |-> {}]

Step(name, n) == [step |-> name, n |-> n]

Returned(c, result) == [c EXCEPT !.pc = "done", !.result = result]

EmptyDisk(out_exists) ==
    [dirs  |-> {<<>>, Cwd} \cup (IF out_exists THEN {Cwd \o <<"out">>} ELSE {}),
     files |-> [q \in {} |-> <<>>]]

NoPair == [edit |-> "none", left |-> <<>>, right |-> <<>>]

MainAlone == now = ClockFailed /\ stamp = <<>> /\ pair = NoPair /\ sums = <<>>

\* One invocation.
Init ==
    /\ \E out_exists \in BOOLEAN : fs = EmptyDisk(out_exists)
    /\ crate_name \in CrateNames
    /\ output_path \in OutputPaths
    /\ source_files \in CollectionsOf(SourcedFile)
    /\ call = [i \in Invocations |-> NewCall(IF i = 1 THEN "validate" ELSE "idle")]
    /\ MainAlone

(***************************************************************************)
(* handle_sourceit_command, one action per step.                           *)
(***************************************************************************)
\* The validation without its second check (source_files.is_empty()).
validation_error_name_only(name, files) ==
    IF name = "" THEN "Crate name cannot be empty" ELSE ""

\* The input validation: the message of the error returned, "" for none.
validation_error(name, files) ==
    IF name = "" THEN "Crate name cannot be empty"
    ELSE IF files = <<>> THEN "No source files provided for extraction"
    ELSE ""

Validate(i) ==
    /\ call[i].pc = "validate"
    /\ LET e == validation_error(crate_name, source_files)
       IN  call' = [call EXCEPT ![i] =
                IF e # "" THEN Returned(@, Err(e, <<>>, ""))
                ELSE [@ EXCEPT !.pc = "resolve_base"]]
    /\ UNCHANGED << fs, args, alone >>

\* base_path: the canonical output_path, or the current directory joined
\* with it, or the current directory.  env::current_dir fails when
\* cwd_ok is false, and so does the canonicalize of a relative path.
ResolveBase(i) ==
    /\ call[i].pc = "resolve_base"
    /\ \E cwd_ok \in BOOLEAN :
        LET c == call[i]
            go(base) == [c EXCEPT !.pc = "create_dir", !.base_path = base,
                                  !.trace = Append(@, Step("resolve_base", 0))]
            canon == IF output_path = <<>> THEN [ok |-> FALSE]
                     ELSE Canonicalize(Cwd \o output_path[1], fs)
        IN  call' = [call EXCEPT ![i] =
                IF output_path # <<>>
                THEN IF cwd_ok /\ canon.ok THEN go(canon.path)
                     ELSE IF cwd_ok THEN go(Cwd \o output_path[1])
                     ELSE Returned(c, Err("Failed to determine current directory",
                                          <<>>, "NotFound"))
                ELSE IF cwd_ok THEN go(Cwd)
                     ELSE Returned(c, Err("Failed to get current working directory",
                                          <<>>, "NotFound"))]
    /\ UNCHANGED << fs, args, alone >>

dir_name(name, timestamp) == "source_crate_" \o name \o "_" \o timestamp

\* The timestamped directory is named and created.
CreateExtractionDir(i) ==
    /\ call[i].pc = "create_dir"
    /\ \E reading \in MainClock, denied \in BOOLEAN :
        LET c == call[i]
            timestamp == StrFrom(create_timestamp(reading), 1)
            extraction_path == Append(c.base_path, dir_name(crate_name, timestamp))
            made == IF denied
                    THEN [ok |-> FALSE, disk |-> fs, err |-> "PermissionDenied"]
                    ELSE CreateDirAll(extraction_path, fs)
            named == [c EXCEPT !.timestamp = timestamp,
                               !.extraction_path = extraction_path]
        IN  /\ fs' = made.disk
            /\ call' = [call EXCEPT ![i] =
                 IF made.ok
                 THEN [named EXCEPT !.pc = "checksum",
                                    !.trace = Append(@, Step("create_dir", 0))]
                 ELSE Returned(named, Err("Failed to create extraction directory",
                                          <<>>, made.err))]
    /\ UNCHANGED << args, alone >>

\* The loop head stopping one file early.
ForNext_skips_last(k, files) ==
    IF k < Len(files) THEN "create_parents" ELSE "create_checksum_file"

\* The head of `for sourced_file in source_files`: the k-th file is next, or
\* the loop is over.
ForNext(k, files) == IF k <= Len(files) THEN "create_parents" ELSE "create_checksum_file"

ComputeChecksum(i) ==
    /\ call[i].pc = "checksum"
    /\ call' = [call EXCEPT ![i] =
            [@ EXCEPT !.checksum = calculate_checksum(source_files),
                      !.idx = 1,
                      !.pc = ForNext(1, source_files),
                      !.trace = Append(@, Step("checksum", 0))]]
    /\ UNCHANGED << fs, args, alone >>

\* extract_file: base_path.join(sourced_file.path)
file_path(c) == c.extraction_path \o source_files[c.idx].path

FileFailed(c, cause) ==
    Returned(c, Err("Failed to extract file", source_files[c.idx].path, cause))

\* extract_file: fs::create_dir_all(parent)
CreateParents(i) ==
    /\ call[i].pc = "create_parents"
    /\ \E denied \in BOOLEAN :
        LET c == call[i]
            made == IF denied
                    THEN [ok |-> FALSE, disk |-> fs, err |-> "PermissionDenied"]
                    ELSE CreateDirAll(Parent(file_path(c)), fs)
        IN  /\ fs' = made.disk
            /\ call' = [call EXCEPT ![i] =
                 IF made.ok THEN [c EXCEPT !.pc = "create_file"]
                 ELSE FileFailed(c, made.err)]
    /\ UNCHANGED << args, alone >>

\* extract_file: fs::File::create(&file_path)
CreateFile(i) ==
    /\ call[i].pc = "create_file"
    /\ \E denied \in BOOLEAN :
        LET c == call[i]
            made == IF denied
                    THEN [ok |-> FALSE, disk |-> fs, err |-> "PermissionDenied",
                          at |-> <<>>]
                    ELSE FileCreate(file_path(c), fs)
        IN  /\ fs' = made.disk
            /\ call' = [call EXCEPT ![i] =
                 IF made.ok
                 THEN [c EXCEPT !.pc = "write_file", !.open = made.at,
                                !.written = @ \cup {made.at}]
                 ELSE FileFailed(c, made.err)]
    /\ UNCHANGED << args, alone >>

\* extract_file: file.write_all(content); the write may stop after n bytes
\* (the disk is full).  Then the loop goes on with the next file.
WriteFile(i) ==
    /\ call[i].pc = "write_file"
    /\ \E n \in 0..Len(source_files[call[i].idx].content) :
        LET c == call[i]
            content == source_files[c.idx].content
        IN  /\ fs' = WriteAt(c.open, SubSeq(content, 1, n), fs)
            /\ call' = [call EXCEPT ![i] =
                 IF n = Len(content)
                 THEN [c EXCEPT !.pc = ForNext(c.idx + 1, source_files),
                                !.idx = c.idx + 1, !.open = <<>>,
                                !.trace = Append(@, Step("file", c.idx))]
                 ELSE FileFailed([c EXCEPT !.open = <<>>], "StorageFull")]
    /\ UNCHANGED << args, alone >>

checksum_path(c) == Append(c.extraction_path, "SOURCE_CHECKSUM.txt")

\* The error of write_checksum_file dropped instead of returned.
ChecksumFileFailed_ignored(ok) == FALSE

\* Whether the error of write_checksum_file makes the command return it.
ChecksumFileFailed(ok) == ~ok

\* write_checksum_file: fs::File::create(path)
CreateChecksumFile(i) ==
    /\ call[i].pc = "create_checksum_file"
    /\ \E denied \in BOOLEAN :
        LET c == call[i]
            made == IF denied
                    THEN [ok |-> FALSE, disk |-> fs, err |-> "PermissionDenied",
                          at |-> <<>>]
                    ELSE FileCreate(checksum_path(c), fs)
        IN  /\ fs' = made.disk
            /\ call' = [call EXCEPT ![i] =
                 IF made.ok
                 THEN [c EXCEPT !.pc = "write_checksum_file", !.open = made.at,
                                !.written = @ \cup {made.at}]
                 ELSE IF ChecksumFileFailed(made.ok)
                 THEN Returned(c, Err("Failed to write checksum file", <<>>, made.err))
                 ELSE [c EXCEPT !.pc = "return"]]
    /\ UNCHANGED << args, alone >>

\* write_checksum_file: writeln!; the write may stop after n of its pieces.
WriteChecksumFile(i) ==
    /\ call[i].pc = "write_checksum_file"
    /\ \E n \in 0..3 :
        LET c == call[i]
            pieces == ChecksumFilePieces(c.checksum)
            closed == [c EXCEPT !.open = <<>>]
        IN  /\ fs' = WriteAt(c.open, Concat(SubSeq(pieces, 1, n)), fs)
            /\ call' = [call EXCEPT ![i] =
                 IF n = 3
                 THEN [closed EXCEPT !.pc = "return",
                                     !.trace = Append(@, Step("checksum_file", 0))]
                 ELSE IF ChecksumFileFailed(FALSE)
                 THEN Returned(closed, Err("Failed to write checksum file", <<>>,
                                           "StorageFull"))
                 ELSE [closed EXCEPT !.pc = "return"]]
    /\ UNCHANGED << args, alone >>

\* extraction_path.canonicalize(): Ok(p), or the error when the directory
\* cannot be resolved (it is gone, or may not be read).
Return(i) ==
    /\ call[i].pc = "return"
    /\ \E denied \in BOOLEAN :
        LET c == call[i]
            canon == IF denied
                     THEN [ok |-> FALSE, path |-> <<>>, err |-> "PermissionDenied"]
                     ELSE Canonicalize(c.extraction_path, fs)
        IN  call' = [call EXCEPT ![i] =
                IF canon.ok
                THEN Returned([c EXCEPT !.trace = Append(@, Step("return", 0))],
                              Ok(canon.path))
                ELSE Returned(c, Err("Failed to get absolute path of extraction directory",
                                     <<>>, canon.err))]
    /\ UNCHANGED << fs, args, alone >>

handle_sourceit_command(i) ==
    \/ Validate(i)
    \/ ResolveBase(i)
    \/ CreateExtractionDir(i)
    \/ ComputeChecksum(i)
    \/ CreateParents(i)
    \/ CreateFile(i)
    \/ WriteFile(i)
    \/ CreateChecksumFile(i)
    \/ WriteChecksumFile(i)
    \/ Return(i)

Next == \E i \in Invocations : handle_sourceit_command(i)

Spec == Init /\ [][Next]_vars

(***************************************************************************)
(* Two invocations with the same arguments, their filesystem steps         *)
(* interleaved.                                                            *)
(***************************************************************************)
TwoFileChoices ==
    { [path |-> <<"a">>, content |-> <<120>>],
      [path |-> <<"a">>, content |-> <<121>>],
      [path |-> <<"a", "b">>, content |-> <<120>>] }

InitTwo ==
    /\ fs = EmptyDisk(FALSE)
    /\ crate_name = "c"
    /\ output_path = <<>>
    /\ source_files \in CollectionsOf(TwoFileChoices) \ {<<>>}
    /\ call = [i \in Invocations |-> NewCall("validate")]
    /\ MainAlone

SpecTwo == InitTwo /\ [][Next]_vars

(***************************************************************************)
(* create_timestamp alone, over clock readings from the whole u64 range.   *)
(***************************************************************************)
\* u64::MAX = 18446744073709551615
MaxSecs == <<1844, 6744, 737, 955, 1615>>

RECURSIVE LimbsLeq(_, _)
LimbsLeq(a, b) ==
    \/ a = <<>>
    \/ Head(a) < Head(b)
    \/ Head(a) = Head(b) /\ LimbsLeq(Tail(a), Tail(b))

\* 253234080000 seconds is the first reading whose year is 10000.
ClockReadings ==
    {ClockFailed} \cup
    { [ok |-> TRUE, secs |-> s] :
        s \in { t \in {0, 1844} \X {0, 6744} \X {0, 17, 737, 2532}
                          \X {0, 955, 3407, 3408} \X {0, 1, 1615, 9999} :
                LimbsLeq(t, MaxSecs) } }

InitTimestamp ==
    /\ fs = EmptyDisk(FALSE)
    /\ crate_name = ""
    /\ output_path = <<>>
    /\ source_files = <<>>
    /\ call = [i \in Invocations |-> NewCall("idle")]
    /\ now \in ClockReadings
    /\ stamp = <<>>
    /\ pair = NoPair
    /\ sums = <<>>

Stamp ==
    /\ stamp = <<>>
    /\ stamp' = create_timestamp(now)
    /\ UNCHANGED << fs, args, call, now, pair, sums >>

SpecTimestamp == InitTimestamp /\ [][Stamp]_vars

(***************************************************************************)
(* calculate_checksum alone, over a collection and the collection with one *)
(* edit: two files swapped, one content changed, one path changed.         *)
(***************************************************************************)
Swap(c, i, j) == [c EXCEPT ![i] = c[j], ![j] = c[i]]

EditPairs ==
    LET cs == CollectionsOf(SourcedFile)
    IN  { [edit |-> "same", left |-> c, right |-> c] : c \in cs }
        \cup UNION { { [edit |-> "swap", left |-> c, right |-> Swap(c, p[1], p[2])] :
                         p \in { q \in (1..Len(c)) \X (1..Len(c)) :
                                   q[1] < q[2] /\ c[q[1]] # c[q[2]] } } : c \in cs }
        \cup UNION { { [edit |-> "content", left |-> c,
                        right |-> [c EXCEPT ![p[1]].content = p[2]]] :
                         p \in { q \in (1..Len(c)) \X ContentChoices :
                                   q[2] # c[q[1]].content } } : c \in cs }
        \cup UNION { { [edit |-> "path", left |-> c,
                        right |-> [c EXCEPT ![p[1]].path = p[2]]] :
                         p \in { q \in (1..Len(c)) \X PathChoices :
                                   q[2] # c[q[1]].path } } : c \in cs }

InitChecksum ==
    /\ fs = EmptyDisk(FALSE)
    /\ crate_name = ""
    /\ output_path = <<>>
    /\ source_files = <<>>
    /\ call = [i \in Invocations |-> NewCall("idle")]
    /\ now = ClockFailed
    /\ stamp = <<>>
    /\ pair \in EditPairs
    /\ sums = <<>>

Digest ==
    /\ sums = <<>>
    /\ sums' = << calculate_checksum(pair.left), calculate_checksum(pair.right) >>
    /\ UNCHANGED << fs, args, call, now, stamp, pair >>

SpecChecksum == InitChecksum /\ [][Digest]_vars


(***************************************************************************)
(* What the properties below read off a state.                             *)
(***************************************************************************)
Done(i) == call[i].pc = "done"

Succeeded(i) == Done(i) /\ call[i].result.status = "Ok"

Failed(i) == Done(i) /\ call[i].result.status = "Err"

Range(f) == { f[x] : x \in DOMAIN f }

IsPrefix(s, t) == Len(s) <= Len(t) /\ SubSeq(t, 1, Len(s)) = s

\* fs::read(p): the bytes of the file at p; <<-1>> when there is no such file.
ReadBack(p, disk) ==
    LET r == Resolve(p, disk)
    IN  IF r.ok /\ r.path \in DOMAIN disk.files THEN disk.files[r.path] ELSE <<-1>>

\* The location a path leads to, when it leads anywhere.
Location(p, disk) ==
    LET e == Entry(p, disk) IN IF e.ok THEN {e.path} ELSE {}

\* The entries and the regular files below a directory.
Below(dir, disk) ==
    { q \in disk.dirs \cup DOMAIN disk.files : q # dir /\ IsPrefix(dir, q) }

FilesBelow(dir, disk) == { q \in DOMAIN disk.files : q # dir /\ IsPrefix(dir, q) }

\* The locations of extraction_path/f.path for the first n files.
Mirror(c, n) ==
    UNION { Location(c.extraction_path \o source_files[k].path, fs) : k \in 1..n }

\* The steps of a complete run, in the order of the code.
ExpectedSteps ==
    << Step("resolve_base", 0), Step("create_dir", 0), Step("checksum", 0) >>
        \o [k \in 1..Len(source_files) |-> Step("file", k)]
        \o << Step("checksum_file", 0), Step("return", 0) >>

\* {:016x} after "0x": all 16 hexadecimal digits of a word, zero-padded.
SixteenHexDigits(w) ==
    MapDigits(HexBytes, Zeros(16 - Len(HexDigits(w))) \o HexDigits(w))

NonEmptyInputs == crate_name # "" /\ source_files # <<>>

(***************************************************************************)
(* C1                                                                      *)
(***************************************************************************)
\* C1 as stated: with a non-empty identifier and a non-empty collection the
\* command returns Ok, and the path returned is an existing, non-empty
\* directory.
C1_AlwaysSucceeds ==
    \A i \in Invocations :
        (Done(i) /\ NonEmptyInputs) =>
            /\ Succeeded(i)
            /\ call[i].result.path \in fs.dirs
            /\ Below(call[i].result.path, fs) # {}

\* C1 amended: with a non-empty identifier and a non-empty collection the
\* command returns either an error that carries the I/O failure of the step
\* that failed, or Ok with the path of an existing, non-empty directory.
C1_SucceedsOrIoError ==
    \A i \in Invocations :
        (Done(i) /\ NonEmptyInputs) =>
            \/ Failed(i) /\ call[i].result.cause # ""
            \/ /\ Succeeded(i)
               /\ call[i].result.path \in fs.dirs
               /\ Below(call[i].result.path, fs) # {}

C1_Witness ==
    \E i \in Invocations :
        /\ NonEmptyInputs
        /\ Succeeded(i)
        /\ Below(call[i].result.path, fs) # {}

(***************************************************************************)
(* C2                                                                      *)
(***************************************************************************)
\* C2: after the command returns Ok(extraction_path), every file f of the
\* collection reads back at extraction_path/f.path with exactly f.content.
C2_RoundTrip ==
    \A i \in Invocations :
        Succeeded(i) =>
            \A k \in 1..Len(source_files) :
                ReadBack(call[i].result.path \o source_files[k].path, fs)
                    = source_files[k].content

(***************************************************************************)
(* C3                                                                      *)
(***************************************************************************)
\* C3: with an empty identifier, or an empty collection, the command returns
\* the validation error and never gets to a step that touches the
\* filesystem: the disk is as it was at the call, nothing was resolved,
\* created or written.
C3_RejectedBeforeFilesystem ==
    \A i \in Invocations :
        (crate_name = "" \/ source_files = <<>>) =>
            /\ call[i].pc \in {"idle", "validate", "done"}
            /\ fs = EmptyDisk((Cwd \o <<"out">>) \in fs.dirs)
            /\ call[i].trace = <<>>
            /\ call[i].written = {}
            /\ Done(i) =>
                 call[i].result =
                    Err(IF crate_name = "" THEN "Crate name cannot be empty"
                        ELSE "No source files provided for extraction", <<>>, "")

C3_Witness ==
    \E i \in Invocations :
        /\ crate_name # "" /\ source_files = <<>>
        /\ Failed(i)
        /\ call[i].result.error = "No source files provided for extraction"

(***************************************************************************)
(* C4                                                                      *)
(***************************************************************************)
\* C4: every file an extraction has written is extraction_dir/f.path for a
\* file f of the collection, or the sidecar, and lies below the extraction
\* directory; after a success the files below the extraction directory are
\* exactly those.
C4_MirrorOnly ==
    \A i \in Invocations :
        LET c      == call[i]
            mirror == Mirror(c, Len(source_files)) \cup {checksum_path(c)}
        IN  /\ \A t \in c.written :
                 t \in mirror /\ t # c.extraction_path /\ IsPrefix(c.extraction_path, t)
            /\ Succeeded(i) => FilesBelow(c.extraction_path, fs) = mirror

(***************************************************************************)
(* C5                                                                      *)
(***************************************************************************)
\* C5: when the extraction of a file fails, the error returned names that
\* file's path and the I/O cause; every earlier file still reads back with
\* its content, no later file and no sidecar has been written, and no step
\* ran twice.
C5_FirstFailureAborts ==
    \A i \in Invocations :
        (Failed(i) /\ call[i].result.error = "Failed to extract file") =>
            LET c == call[i]
            IN  /\ c.result.file = source_files[c.idx].path
                /\ c.result.cause # ""
                /\ \A j \in 1..(c.idx - 1) :
                     ReadBack(c.extraction_path \o source_files[j].path, fs)
                        = source_files[j].content
                /\ \A j \in c.idx..Len(source_files) :
                     Step("file", j) \notin Range(c.trace)
                /\ c.written \subseteq Mirror(c, c.idx)
                /\ Step("checksum_file", 0) \notin Range(c.trace)
                /\ IsPrefix(c.trace, ExpectedSteps)


(***************************************************************************)
(* C6                                                                      *)
(***************************************************************************)
\* C6: the steps of a run are a prefix of: resolve the base, create the
\* extraction directory, compute the checksum, write the files in the
\* collection's order, write the sidecar, return; so no step runs twice.
\* No file is written before the checksum is computed, and the sidecar is
\* created and written only when every file of the collection has been
\* written.
C6_StepOrder ==
    \A i \in Invocations :
        LET c == call[i]
        IN  /\ IsPrefix(c.trace, ExpectedSteps)
            /\ (Step("checksum", 0) \in Range(c.trace)) <=> (c.checksum # <<>>)
            /\ (c.checksum = <<>>) => (c.written = {})
            /\ (\/ c.pc \in {"create_checksum_file", "write_checksum_file", "return"}
                \/ Step("checksum_file", 0) \in Range(c.trace))
                 => \A k \in 1..Len(source_files) : Step("file", k) \in Range(c.trace)

C6_Witness ==
    \E i \in Invocations :
        /\ Succeeded(i)
        /\ Len(source_files) >= 2
        /\ call[i].trace = ExpectedSteps

C8_SixteenHexDigits ==
    \A i \in Invocations :
        (Step("checksum_file", 0) \in Range(call[i].trace)) =>
            ReadBack(checksum_path(call[i]), fs)
                = ChecksumLinePrefix \o <<48, 120>>
                    \o SixteenHexDigits(call[i].checksum) \o ChecksumFileTrailer

(***************************************************************************)
(* C9                                                                      *)
(***************************************************************************)
\* C9: for every clock reading the string create_timestamp returns has
\* exactly 15 characters, its 9th character (position 8, after the eight
\* date digits) is '_' and no other character is; when the clock fails it
\* is 00000000_000000.
C9_FifteenCharacters ==
    (stamp # <<>>) =>
        /\ Len(stamp) = 15
        /\ \A k \in 1..Len(stamp) : (stamp[k] = "_") <=> (k = 9)
        /\ \A k \in (1..Len(stamp)) \ {9} : stamp[k] \in Range(DecChars)
        /\ (~now.ok) => (StrFrom(stamp, 1) = "00000000_000000")

(***************************************************************************)
(* C10                                                                     *)
(***************************************************************************)
\* C10: two invocations with the same arguments whose timestamps differ
\* have distinct extraction directories, neither has written a file in the
\* other's directory, and the directory of each that succeeded holds every
\* file of the collection with its content and its own sidecar.
C10_NoCollision ==
    (/\ call[1].timestamp # ""
     /\ call[2].timestamp # ""
     /\ call[1].timestamp # call[2].timestamp) =>
        /\ call[1].extraction_path # call[2].extraction_path
        /\ \A i, j \in Invocations :
             (i # j) =>
                \A t \in call[i].written : ~IsPrefix(call[j].extraction_path, t)
        /\ \A i \in Invocations :
             Succeeded(i) =>
                /\ \A k \in 1..Len(source_files) :
                     ReadBack(call[i].extraction_path \o source_files[k].path, fs)
                        = source_files[k].content
                /\ ReadBack(checksum_path(call[i]), fs)
                     = ChecksumFileText(call[i].checksum)

=============================================================================
